---- MODULE Spec2Model ----
(***************************************************************************)
(* Model of summarize-test-2.py: a Streamlit page that extracts text from  *)
(* a PDF, asks a chat-completion endpoint for a summary and stores        *)
(* (name, summary, date) rows in one MySQL table.                          *)
(*                                                                         *)
(* Streamlit executes main() from top to bottom once per user event, one   *)
(* session per browser tab, all sessions sharing the module-level engine.  *)
(* One action of the model is one such execution of main() for one         *)
(* session: Startup (the session's first execution), Redraw (a later       *)
(* execution in which no button is pressed), Generate ("Generate Summary"  *)
(* pressed) and Save ("Save Summary" pressed).  An uncaught exception ends *)
(* the execution where it is raised; what was assigned before it stays.    *)
(* An execution is taken as one step: MySQL serialises the statements of   *)
(* different sessions, and the table only ever grows.  A button is taken   *)
(* to be pressable whenever the session state would have it drawn.         *)
(*                                                                         *)
(* Text that the code strips or tests for emptiness is a sequence of       *)
(* one-character strings; names and dates are strings.                     *)
(***************************************************************************)
EXTENDS Integers, Sequences, FiniteSets, Bags, TLC

\* ------------------------------------------------------------- bounds
\* Largest number of rows of table summaries explored with one session, and
\* with several sessions on the same table.
MaxRows == 2
MaxSharedRows == 1

\* Browser sessions served by the one process.
Sessions == {"s1", "s2"}

\* ------------------------------------------------------------- values
None == [tag |-> "None"]
Str(s) == [tag |-> "str", val |-> s]

\* str.strip() removes these from both ends.
Whitespace == {" ", "\n"}

RECURSIVE lstrip(_)
lstrip(s) ==
    IF s = <<>> THEN <<>>
    ELSE IF Head(s) \in Whitespace THEN lstrip(Tail(s))
    ELSE s

RECURSIVE rstrip(_)
rstrip(s) ==
    IF s = <<>> THEN <<>>
    ELSE IF s[Len(s)] \in Whitespace THEN rstrip(SubSeq(s, 1, Len(s) - 1))
    ELSE s

strip(s) == rstrip(lstrip(s))

\* Python truth value of a str.
Truthy(s) == s # <<>>

\* ------------------------------------------------------------- inputs
\* The file uploader's value: no file, a file pdfplumber cannot open, or a
\* PDF given by what page.extract_text() returns for each page (None or a str).
NoFile == [kind |-> "none", pages |-> <<>>]
BadFile == [kind |-> "bad", pages |-> <<>>]
Pdf(pages) == [kind |-> "pdf", pages |-> pages]
Files ==
    {NoFile, BadFile, Pdf(<<None, Str(<<" ">>), Str(<<>>)>>),
     Pdf(<<Str(<<"a">>), None, Str(<<"b">>)>>)}

\* The text area's value.
InputTexts == {<<>>, <<"\n", " ">>, <<" ", "a">>}

\* The endpoint's answers: a status code, whether the body has
\* choices[0].message.content, and that content.
Contents == {<<" ", "\n">>, <<" ", "a", "\n">>, <<"a", " ", "b">>}
MoreContents == Contents \cup {<<>>, <<"a">>, <<"\n", "a", " ", "b", " ">>, <<"b", "\n", "\n">>}
ResponsesWith(contents) ==
    {[status_code |-> c, well_formed |-> FALSE, content |-> <<>>] : c \in {200, 401}}
        \cup {[status_code |-> 200, well_formed |-> TRUE, content |-> t] : t \in contents}
        \cup {[status_code |-> 500, well_formed |-> TRUE, content |-> <<"a">>]}
Responses == ResponsesWith(Contents)

\* The "Custom Name" text input's value.
CustomNames == {"", "Q1 Report"}

\* The date input's value (year, month, day).
CustomDates == {<<2024, 3, 1>>}

\* datetime.now(): (year, month, day, hour, minute, second).
Nows == {<<2024, 3, 1, 9, 5, 0>>}

\* ------------------------------------------------------------- the store
\* Rows a table left by earlier runs of the program may hold.
LegacyRow ==
    [id |-> 1, name |-> "Q1 Report", summary |-> <<"a">>, date |-> "2024-03-01"]

InitialDbs ==
    { [exists |-> FALSE, rows |-> <<>>],
      [exists |-> TRUE, rows |-> <<>>],
      [exists |-> TRUE, rows |-> <<LegacyRow>>] }

\* A variant that drops and re-creates the table.
drop_and_create_table(d) == [exists |-> TRUE, rows |-> <<>>]

\* CREATE TABLE IF NOT EXISTS summaries (...)
create_table_if_not_exists(d) == [d EXCEPT !.exists = TRUE]

\* A variant of the query that leaves out the newest row.
load_all_but_newest(d) ==
    [i \in 1..(Len(d.rows) - 1) |->
        [name |-> d.rows[i].name, summary |-> d.rows[i].summary, date |-> d.rows[i].date]]

\* SELECT name, summary, date FROM summaries;  The query has no ORDER BY;
\* the rows are taken in id order, and the properties below compare
\* saved_results with the table as collections, whatever the order.
load_saved_summaries(d) ==
    [i \in 1..Len(d.rows) |->
        [name |-> d.rows[i].name, summary |-> d.rows[i].summary, date |-> d.rows[i].date]]

\* A variant that replaces the table's rows by the new one.
replace_summary_in_db(d, name, summary, date_str) ==
    [d EXCEPT !.rows =
        <<[id |-> 1, name |-> name, summary |-> summary, date |-> date_str]>>]

\* INSERT INTO summaries (name, summary, date) VALUES (...); id is AUTO_INCREMENT.
save_summary_to_db(d, name, summary, date_str) ==
    [d EXCEPT !.rows =
        Append(@, [id |-> Len(@) + 1, name |-> name, summary |-> summary, date |-> date_str])]

\* ------------------------------------------------------------- summarizer
\* A variant that does not look at the status code.
summary_ignoring_status(text, response) ==
    IF ~response.well_formed THEN [tag |-> "raise"]
    ELSE Str(strip(response.content))

\* A variant that returns the content as received.
summary_unstripped(text, response) ==
    IF response.status_code # 200 THEN None
    ELSE IF ~response.well_formed THEN [tag |-> "raise"]
    ELSE Str(response.content)

\* generate_summary_with_perplexity: None on a status other than 200, an
\* exception when the 200 body lacks choices[0].message.content, else the
\* stripped content.
generate_summary_with_perplexity(text, response) ==
    IF response.status_code # 200 THEN None
    ELSE IF ~response.well_formed THEN [tag |-> "raise"]
    ELSE Str(strip(response.content))

\* ------------------------------------------------------------- extractor
RECURSIVE extract_text_from_pdf(_)
extract_text_from_pdf(pages) ==
    IF pages = <<>> THEN <<>>
    ELSE LET page_text == Head(pages)
             rest == extract_text_from_pdf(Tail(pages))
         IN IF page_text.tag = "str" /\ Truthy(page_text.val)
            THEN page_text.val \o <<"\n">> \o rest
            ELSE rest

\* Lines 133-138 of main.
combined_text(pdf_text, input_text) ==
    IF Truthy(pdf_text) /\ Truthy(input_text) THEN pdf_text \o <<"\n">> \o input_text
    ELSE IF Truthy(pdf_text) THEN pdf_text
    ELSE input_text

\* ------------------------------------------------------------- formatting
Pad2(n) == IF n < 10 THEN "0" \o ToString(n) ELSE ToString(n)

\* strftime("%Y-%m-%d") and strftime("%Y-%m-%d %H:%M:%S")
strftime_date(t) == ToString(t[1]) \o "-" \o Pad2(t[2]) \o "-" \o Pad2(t[3])
strftime_datetime(t) ==
    strftime_date(t) \o " " \o Pad2(t[4]) \o ":" \o Pad2(t[5]) \o ":" \o Pad2(t[6])

\* A variant that takes the custom name as it is.
entry_name_as_typed(custom_name, now) == custom_name

\* Lines 160-164 of main.
entry_name(custom_name, now) ==
    IF custom_name # "" THEN custom_name ELSE "Summary " \o strftime_datetime(now)

\* ------------------------------------------------------------- state
VARIABLES
    db,             \* table summaries: whether it exists, and its rows in id order
    session_state,  \* st.session_state of each session: a function from keys to values
    booted,         \* the sessions whose first execution of main() has taken place
    snapshot,       \* per session, the table's rows when its last load_saved_summaries returned
    last,           \* the execution of main() just finished: who, what, its inputs and calls
    call            \* one call of generate_summary_with_perplexity: its inputs and its result

vars == <<db, session_state, booted, snapshot, last, call>>

NoRun ==
    [op |-> "none", sess |-> "none", outcome |-> "none", requests |-> 0, loads |-> 0,
     status |-> 0, blank |-> FALSE, custom_name |-> ""]

NoCall == [text |-> <<>>, response |-> [status_code |-> 0], returned |-> [tag |-> "pending"]]

\* The process with the sessions S open, none of which has run main() yet.
Opened(S) ==
    /\ db \in InitialDbs
    /\ session_state = [s \in S |-> <<>>]
    /\ booted = {}
    /\ snapshot = [s \in S |-> <<>>]
    /\ last = NoRun
    /\ call = NoCall

\* One session, as the program is meant to be used.
Init == Opened({"s1"})

\* Several sessions on the same table.
InitShared == Opened(Sessions)

RowLimit == IF Cardinality(DOMAIN session_state) = 1 THEN MaxRows ELSE MaxSharedRows

Has(st, key) == key \in DOMAIN st

\* A variant that loads on every execution.
AlwaysLoad(st) == TRUE

\* Line 105: the cached table is loaded only when the key is missing.
NeedsLoad(st) == ~Has(st, "saved_results")

\* Lines 107-108.
InitSummary(st) ==
    IF Has(st, "generated_summary") THEN st ELSE ("generated_summary" :> None) @@ st

\* Lines 102-108 of main for a session whose state is st, on table d: the
\* table and the session state as they leave them, how they end, and the
\* number of load_saved_summaries calls made.  schema_ok and load_ok say
\* whether the store answers the two statements.
Prologue(d, st, schema_ok, load_ok) ==
    IF ~schema_ok
    THEN [outcome |-> "schema_error", db |-> d, st |-> st, loads |-> 0]
    ELSE LET d1 == create_table_if_not_exists(d) IN
         IF ~NeedsLoad(st)
         THEN [outcome |-> "ok", db |-> d1, st |-> InitSummary(st), loads |-> 0]
         ELSE IF ~load_ok
         THEN [outcome |-> "load_error", db |-> d1, st |-> st, loads |-> 1]
         ELSE [outcome |-> "ok", db |-> d1,
               st |-> InitSummary(("saved_results" :> load_saved_summaries(d1)) @@ st),
               loads |-> 1]

\* Lines 123-127: the uploaded file, if any, is read on every execution.
PdfText(file) == IF file.kind = "pdf" THEN extract_text_from_pdf(file.pages) ELSE <<>>

\* Lines 102-138, which every execution runs before it looks at the
\* buttons: the Prologue, then the file; "pdf_error" when pdfplumber cannot
\* open it.
Opening(d, st, schema_ok, load_ok, file) ==
    LET p == Prologue(d, st, schema_ok, load_ok) IN
    IF p.outcome = "ok" /\ file.kind = "bad" THEN [p EXCEPT !.outcome = "pdf_error"] ELSE p

\* A variant of the validation that does not trim.
EmptyUntrimmed(text) == ~Truthy(text)

\* Line 142: the validation of the combined input.
EmptyInput(text) == ~Truthy(strip(text))

\* A variant of the test: "if summary is not None:".
NotNone(summary) == summary.tag = "str"

\* Line 149: "if summary:".
GotSummary(summary) == summary.tag = "str" /\ Truthy(summary.val)

\* Line 155: the save form is drawn, and its button can be pressed, only
\* while generated_summary is not None.
SaveOffered(st) == Has(st, "generated_summary") /\ st.generated_summary # None

\* The text has no character other than whitespace.
IsBlank(text) == \A i \in 1..Len(text) : text[i] \in Whitespace

\* The end of an execution by session s: the table and session state it
\* leaves, the rows its last successful load saw (loaded), and the record
\* of the execution.
Ends(s, d, st, loaded, report) ==
    /\ db' = d
    /\ session_state' = [session_state EXCEPT ![s] = st]
    /\ snapshot' = IF loaded.some THEN [snapshot EXCEPT ![s] = loaded.rows] ELSE snapshot
    /\ booted' = booted \cup {s}
    /\ last' = report @@ [NoRun EXCEPT !.sess = s]
    /\ UNCHANGED call

\* The record of an execution; the fields it leaves out are NoRun's.
Report(op, outcome, requests, loads) ==
    [op |-> op, outcome |-> outcome, requests |-> requests, loads |-> loads]

\* The rows a successful load in the Opening saw, if it made one.
OpeningLoad(o) ==
    IF o.loads = 1 /\ o.outcome # "load_error"
    THEN [some |-> TRUE, rows |-> o.db.rows] ELSE [some |-> FALSE, rows |-> <<>>]

\* An execution of main() in which no button is pressed.  Widgets exist only
\* once an execution has reached them, so a session without cached results
\* has no uploaded file.
NoClick(s, op) ==
    \E schema_ok, load_ok \in BOOLEAN, file \in Files :
        /\ ~Has(session_state[s], "saved_results") => file = NoFile
        /\ LET o == Opening(db, session_state[s], schema_ok, load_ok, file) IN
            Ends(s, o.db, o.st, OpeningLoad(o), Report(op, o.outcome, 0, o.loads))

\* The session's first execution of main().
Startup(s) ==
    /\ s \notin booted
    /\ NoClick(s, "startup")

\* A later execution with no button pressed (a widget changed, a rerun).
Redraw(s) ==
    /\ s \in booted
    /\ NoClick(s, "redraw")

\* "Generate Summary" pressed: lines 141-152.  The button exists once an
\* execution has reached line 141, so the session has its cached results.
Generate(s) ==
    /\ Has(session_state[s], "saved_results")
    /\ \E schema_ok \in BOOLEAN, file \in Files :
        LET o == Opening(db, session_state[s], schema_ok, TRUE, file) IN
        IF o.outcome # "ok"
        THEN Ends(s, o.db, o.st, OpeningLoad(o),
                  Report("generate", o.outcome, 0, o.loads))
        ELSE \E input_text \in InputTexts :
            LET text == combined_text(PdfText(file), input_text) IN
            IF EmptyInput(text)
            THEN Ends(s, o.db, o.st, OpeningLoad(o),
                      [blank |-> IsBlank(text)] @@ Report("generate", "rejected", 0, o.loads))
            ELSE \E response \in Responses :
                LET summary == generate_summary_with_perplexity(text, response)
                    outcome ==
                        IF summary.tag = "raise" THEN "parse_error"
                        ELSE IF summary = None THEN "http_error"
                        ELSE IF GotSummary(summary) THEN "ok" ELSE "empty_summary"
                    st == IF summary.tag # "raise" /\ GotSummary(summary)
                          THEN [o.st EXCEPT !.generated_summary = summary] ELSE o.st
                IN  Ends(s, o.db, st, OpeningLoad(o),
                         [status |-> response.status_code, blank |-> IsBlank(text)]
                            @@ Report("generate", outcome, 1, o.loads))

\* "Save Summary" pressed: lines 155-170.
Save(s) ==
    /\ Has(session_state[s], "saved_results")
    /\ SaveOffered(session_state[s])
    /\ Len(db.rows) < RowLimit
    /\ \E schema_ok \in BOOLEAN, file \in Files :
        LET o == Opening(db, session_state[s], schema_ok, TRUE, file) IN
        IF o.outcome # "ok"
        THEN Ends(s, o.db, o.st, OpeningLoad(o), Report("save", o.outcome, 0, o.loads))
        ELSE \E insert_ok, load_ok \in BOOLEAN, custom_name \in CustomNames,
                custom_date \in CustomDates, now \in Nows :
            LET name == entry_name(custom_name, now)
                date_str == strftime_date(custom_date)
                d == save_summary_to_db(o.db, name, o.st.generated_summary.val, date_str)
            IN  IF ~insert_ok
                THEN Ends(s, o.db, o.st, OpeningLoad(o),
                          [custom_name |-> custom_name]
                            @@ Report("save", "insert_error", 0, o.loads))
                ELSE IF ~load_ok
                THEN Ends(s, d, o.st, OpeningLoad(o),
                          [custom_name |-> custom_name]
                            @@ Report("save", "load_error", 0, o.loads + 1))
                ELSE Ends(s, d, [o.st EXCEPT !.saved_results = load_saved_summaries(d)],
                          [some |-> TRUE, rows |-> d.rows],
                          [custom_name |-> custom_name]
                            @@ Report("save", "ok", 0, o.loads + 1))

Next ==
    \/ \E s \in DOMAIN session_state : Startup(s)
    \/ \E s \in DOMAIN session_state : Redraw(s)
    \/ \E s \in DOMAIN session_state : Generate(s)
    \/ \E s \in DOMAIN session_state : Save(s)

Spec == Init /\ [][Next]_vars

\* ------------------------------------------------------------- the client alone
\* generate_summary_with_perplexity as a function of its text and of the
\* endpoint's answer: every text main can pass it, every answer.
Texts == {combined_text(PdfText(f), i) : f \in Files, i \in InputTexts} \ {<<>>}

InitSummarize ==
    /\ db = [exists |-> FALSE, rows |-> <<>>]
    /\ session_state = [s \in {"s1"} |-> <<>>]
    /\ booted = {}
    /\ snapshot = [s \in {"s1"} |-> <<>>]
    /\ last = NoRun
    /\ call \in {[NoCall EXCEPT !.text = t, !.response = r] :
                    t \in Texts, r \in ResponsesWith(MoreContents)}

Summarize ==
    /\ call.returned.tag = "pending"
    /\ call' = [call EXCEPT
                    !.returned = generate_summary_with_perplexity(call.text, call.response)]
    /\ UNCHANGED <<db, session_state, booted, snapshot, last>>

SpecSummarize == InitSummarize /\ [][Summarize]_vars

SpecShared == InitShared /\ [][Next]_vars

\* ------------------------------------------------------------- properties
Open == DOMAIN session_state
Cached(s) == "saved_results" \in DOMAIN session_state[s]
Saved(s) == session_state[s].saved_results
Summary(s) == session_state[s].generated_summary
HasSummary(st) == "generated_summary" \in DOMAIN st /\ st.generated_summary.tag = "str"

\* The (name, summary, date) of each row, in the rows' order.
Records(rows) ==
    [i \in 1..Len(rows) |->
        [name |-> rows[i].name, summary |-> rows[i].summary, date |-> rows[i].date]]

\* A sequence as a collection without order.
BagOf(seq) ==
    [x \in {seq[i] : i \in DOMAIN seq} |-> Cardinality({i \in DOMAIN seq : seq[i] = x})]

IsPrefix(a, b) == Len(a) <= Len(b) /\ SubSeq(b, 1, Len(a)) = a

Trimmed(t) == t = <<>> \/ (t[1] \notin Whitespace /\ t[Len(t)] \notin Whitespace)

\* The executions that wrote a row: the insert committed.
Inserted == last.op = "save" /\ last.outcome \in {"ok", "load_error"}

\* The label main gives a save made at the one time of Nows.
LabelAtNow == "Summary 2024-03-01 09:05:00"

\* C1: every row of the table has a non-empty summary and a non-empty name;
\* a save takes place only in a session whose generated_summary is a
\* string, and a save with the custom name left empty writes the label
\* "Summary <YYYY-MM-DD HH:MM:SS>".
C1_RecordsNeverEmpty ==
    /\ \A i \in 1..Len(db.rows) : db.rows[i].summary # <<>> /\ db.rows[i].name # ""
    /\ last.op = "save" => HasSummary(session_state[last.sess])
    /\ (Inserted /\ last.custom_name = "") => db.rows[Len(db.rows)].name = LabelAtNow
    /\ (Inserted /\ last.custom_name # "") => db.rows[Len(db.rows)].name = last.custom_name

\* C1 witness: a save with the custom name left empty has written its row.
C1_Witness ==
    /\ Inserted
    /\ last.custom_name = ""
    /\ db.rows[Len(db.rows)].name = LabelAtNow

\* C2: a generate in which the endpoint answers with a status other than
\* 200 gets no summary and leaves generated_summary as it was.
C2_ErrorStatusKeepsSummary ==
    [][\A s \in Open :
        (last'.op = "generate" /\ last'.sess = s /\ last'.status \notin {0, 200})
            => /\ last'.outcome = "http_error"
               /\ session_state'[s].generated_summary = session_state[s].generated_summary
      ]_vars

\* C2 witness: the endpoint answered 500 to a session that had a summary.
C2_Witness ==
    /\ last.op = "generate"
    /\ last.status = 500
    /\ HasSummary(session_state[last.sess])

\* C3: a generate whose combined input is empty after trimming is rejected
\* and sends no request to the endpoint.
C3_BlankInputMakesNoRequest ==
    (last.op = "generate" /\ last.blank) => (last.outcome = "rejected" /\ last.requests = 0)

\* C3 witness: a generate with a blank combined input has been rejected.
C3_Witness == last.op = "generate" /\ last.blank /\ last.outcome = "rejected"

\* C4: saved_results holds exactly the records the table held when the
\* session's last load returned, and right after a successful save it
\* holds exactly the table's records, the new one included.
C4_SavedResultsIsFullLoad ==
    /\ \A s \in Open : Cached(s) => BagOf(Saved(s)) = BagOf(Records(snapshot[s]))
    /\ (last.op = "save" /\ last.outcome = "ok")
        => /\ BagOf(Saved(last.sess)) = BagOf(Records(db.rows))
           /\ Len(Saved(last.sess)) = Len(db.rows)

\* C4 witness: a successful save has refreshed saved_results to two records.
C4_Witness ==
    /\ last.op = "save"
    /\ last.outcome = "ok"
    /\ Len(Saved(last.sess)) = 2

Failures ==
    {"schema_error", "pdf_error", "parse_error", "http_error", "insert_error", "load_error"}

\* C5 as claimed: a generate or save that fails at any step leaves the
\* table's rows, generated_summary and saved_results as they were.
C5_AsClaimed ==
    [][(last'.op \in {"generate", "save"} /\ last'.outcome \in Failures)
            => (db'.rows = db.rows /\ session_state' = session_state)
      ]_vars

\* C5: a generate or save that fails leaves generated_summary and
\* saved_results as they were; it leaves the table's rows as they were
\* too, unless it is a save that fails in the load after its insert, which
\* leaves the one inserted row in the table.
C5_FailureKeepsSessionState ==
    [][(last'.op \in {"generate", "save"} /\ last'.outcome \in Failures)
            => /\ session_state' = session_state
               /\ IF last'.op = "save" /\ last'.outcome = "load_error"
                  THEN /\ Len(db'.rows) = Len(db.rows) + 1
                       /\ IsPrefix(db.rows, db'.rows)
                  ELSE db'.rows = db.rows
      ]_vars

\* C5 witness: a save failed in its load, and the table holds a row that
\* the session's saved_results does not.
C5_Witness ==
    /\ last.op = "save"
    /\ last.outcome = "load_error"
    /\ Len(Saved(last.sess)) < Len(db.rows)

\* C6 as claimed: on a 200 answer with a well-formed content the client
\* returns a non-empty string without leading or trailing whitespace.
C6_AsClaimed ==
    (/\ call.returned.tag # "pending"
     /\ call.text # <<>>
     /\ call.response.status_code = 200
     /\ call.response.well_formed)
        => /\ call.returned.tag = "str"
           /\ call.returned.val # <<>>
           /\ Trimmed(call.returned.val)

\* C6: on a 200 answer with a well-formed content the client returns the
\* content without its leading and trailing whitespace: a part of the
\* content, trimmed, and empty exactly when the content is all whitespace.
C6_ReturnsTrimmedContent ==
    (/\ call.returned.tag # "pending"
     /\ call.text # <<>>
     /\ call.response.status_code = 200
     /\ call.response.well_formed)
        => LET content == call.response.content
               val == call.returned.val
           IN  /\ call.returned.tag = "str"
               /\ Trimmed(val)
               /\ (val = <<>>) <=> IsBlank(content)
               /\ \E i \in 1..(Len(content) + 1) : val = SubSeq(content, i, i + Len(val) - 1)

\* C6 witness: the client has returned a content shortened by the trimming.
C6_Witness ==
    /\ call.returned.tag = "str"
    /\ call.returned.val # <<>>
    /\ call.returned.val # call.response.content

\* C7 as claimed: a redraw or a generate never calls load_saved_summaries,
\* and the startup calls it at most once.
C7_AsClaimed ==
    /\ last.op \in {"redraw", "generate"} => last.loads = 0
    /\ last.op = "startup" => last.loads <= 1

\* C7: an execution without a save calls load_saved_summaries only when the
\* session has no cached saved_results, once, after the schema statement
\* succeeded; the cache, once set, stays, so no redraw or generate of a
\* session with cached results loads; and a save loads exactly when its
\* insert has committed.
C7_LoadsOnlyWithoutCache ==
    [][\A s \in Open :
        last'.sess = s =>
            /\ Cached(s) => Cached(s)'
            /\ last'.op \in {"startup", "redraw", "generate"} =>
                /\ last'.loads = IF Cached(s) \/ last'.outcome = "schema_error" THEN 0 ELSE 1
                /\ (~Cached(s) /\ Cached(s)') => last'.loads = 1
            /\ last'.op = "save" =>
                last'.loads = IF db'.rows # db.rows THEN 1 ELSE 0
      ]_vars

\* C7 witness: a redraw of a session whose startup failed has loaded.
C7_Witness ==
    /\ last.op = "redraw"
    /\ last.loads = 1
    /\ last.outcome = "ok"

\* C8: the table only grows at its end, by one row per step, only in a
\* save; a successful save adds exactly one row, which holds the session's
\* generated_summary, even when an equal record is there already.
C8_StoreAppendOnly ==
    [][/\ IsPrefix(db.rows, db'.rows)
       /\ Len(db'.rows) <= Len(db.rows) + 1
       /\ db'.rows # db.rows => last'.op = "save" /\ last'.outcome \in {"ok", "load_error"}
       /\ (last'.op = "save" /\ last'.outcome = "ok") =>
            /\ Len(db'.rows) = Len(db.rows) + 1
            /\ db'.rows[Len(db'.rows)].summary = session_state[last'.sess].generated_summary.val
      ]_vars

\* C8 witness: a successful save has added a record equal to one the table
\* already held.
C8_Witness ==
    /\ last.op = "save"
    /\ last.outcome = "ok"
    /\ Len(db.rows) >= 2
    /\ \E i \in 1..(Len(db.rows) - 1) :
        Records(db.rows)[i] = Records(db.rows)[Len(db.rows)]

\* C9: generated_summary is None when first set; from then on it changes
\* only in a generate answered with status 200, to a non-empty string; and
\* once it is a string it stays one.
C9_SummaryNeverCleared ==
    [][\A s \in Open :
        LET st == session_state[s]
            st2 == session_state'[s]
        IN  /\ ("generated_summary" \notin DOMAIN st /\ "generated_summary" \in DOMAIN st2)
                => st2.generated_summary = None
            /\ "generated_summary" \in DOMAIN st => "generated_summary" \in DOMAIN st2
            /\ ("generated_summary" \in DOMAIN st /\ st2.generated_summary # st.generated_summary)
                => /\ last'.op = "generate" /\ last'.sess = s /\ last'.status = 200
                   /\ st2.generated_summary.tag = "str"
                   /\ st2.generated_summary.val # <<>>
            /\ HasSummary(st) => HasSummary(st2)
      ]_vars

\* C9 witness: a rejected generate has left the session's summary in place.
C9_Witness ==
    /\ last.op = "generate"
    /\ last.outcome = "rejected"
    /\ HasSummary(session_state[last.sess])
    /\ Summary(last.sess).val = <<"a", " ", "b">>

====
